---- MODULE Spec2Model ----
(***************************************************************************)
(* A model of the SISPIN record store, DataService                        *)
(* (src/js/data-management.js), with the parts of UIService and AppConfig  *)
(* (src/js/ui.js) and SecurityService (src/unnamed/part_000) it calls.     *)
(*                                                                         *)
(* JavaScript objects are TLA+ functions from field names to values; an    *)
(* absent field is a name outside the DOMAIN.  Time is an integer clock.   *)
(***************************************************************************)
EXTENDS Integers, Sequences, FiniteSets, TLC

VARIABLES
    allData,        \* DataService.allData: the in-memory collection
    cache,          \* DataService.cache: key -> [data, timestamp]
    users,          \* AuthService.users: username -> credentials
    currentUser,    \* AuthService.currentUser: [role, name] or NoUser
    currentPage,    \* UIService.currentPage
    cache_enabled,  \* AppConfig performance.cache_enabled
    now,            \* Date.now()
    pending,        \* the calls awaiting window.dataSdk, by operation, oldest first
    dataSdk,        \* window.dataSdk: the backend, or a probe standing in for it
    last            \* the latest call: its arguments and what it returned, sent or threw

vars == <<allData, cache, users, currentUser, currentPage, cache_enabled,
          now, pending, dataSdk, last>>

----------------------------------------------------------------------------
(* Bounds of the model *)

MaxData == 1
MaxTime == 2
MaxInflight == 1
MaxProbed == 2
MaxList == 2

(* Configuration values (AppConfig.current, loaded from storage) *)
cache_ttl == 1
max_data_items == 1
password_min_length == 6

----------------------------------------------------------------------------
(* JavaScript object helpers *)

EmptyObj == << >>

Undefined == "<undefined>"

BoolFields == {"approved"}
\* the fields whose value is itself an object
ObjFields == {"meta"}
NumFields == {"__backendId", "createdAt", "updatedAt"}

\* {...a, ...b}
Spread(a, b) ==
    [k \in DOMAIN a \cup DOMAIN b |-> IF k \in DOMAIN b THEN b[k] ELSE a[k]]

\* the fields that reach the store as a number or as a string: the value
\* carries its JavaScript type
MixedFields == {"nilai"}

Num(n) == [t |-> "number", v |-> n]
Str(x) == [t |-> "string", v |-> x]

\* obj[f] used as a condition
Truthy(obj, f) ==
    /\ f \in DOMAIN obj
    /\ IF f \in BoolFields THEN obj[f] = TRUE
       ELSE IF f \in NumFields THEN obj[f] # 0
       ELSE IF f \in MixedFields
            THEN (IF obj[f].t = "number" THEN obj[f].v # 0 ELSE obj[f].v # "")
       ELSE obj[f] \notin {"", Undefined}

\* the candidate null
Null == [null |-> TRUE]

\* obj[f] of a string-valued field
Get(obj, f) == IF f \in DOMAIN obj THEN obj[f] ELSE Undefined

----------------------------------------------------------------------------
(* Identities *)

NoUser == [role |-> "none", name |-> "none"]

defaultUsers ==
    [admin  |-> [password |-> "admin123",  role |-> "admin",  name |-> "Administrator"],
     kepsek |-> [password |-> "kepsek123", role |-> "kepsek", name |-> "Kepala Sekolah"],
     guru   |-> [password |-> "guru123",   role |-> "guru",   name |-> "Guru Matematika"],
     bk     |-> [password |-> "bk123",     role |-> "bk",     name |-> "Guru BK"],
     siswa  |-> [password |-> "siswa123",  role |-> "siswa",  name |-> "Siswa/Orang Tua"]]

SeedNames == DOMAIN defaultUsers

\* the identities a login can produce: role and display name of an account
Identities == {[role |-> defaultUsers[u].role, name |-> defaultUsers[u].name] : u \in SeedNames}

LoggedIn(user) == user # NoUser

----------------------------------------------------------------------------
(* Records the backend can deliver in a snapshot *)

Ids == 1..MaxData

IntraRecords ==
    {[type |-> "intra", __backendId |-> id, author |-> a, approved |-> ap,
      createdAt |-> 1] : id \in Ids, a \in {"Administrator", "Guru Matematika"}, ap \in BOOLEAN}

\* snapshots: the backend gives every record its own identity
Snapshots(records) ==
    {s \in UNION {[1..n -> records] : n \in 0..MaxData} :
        \A i, j \in DOMAIN s : i # j => s[i].__backendId # s[j].__backendId}

IntraSnapshots == Snapshots(IntraRecords)

\* snapshots of lesson plans that still wait for approval
UnapprovedSnapshots == Snapshots({d \in IntraRecords : ~d.approved})

\* snapshots of teacher records, with every username and an empty password
GuruSnapshots ==
    Snapshots({[type |-> "guru", __backendId |-> id, author |-> "Administrator",
                approved |-> TRUE, createdAt |-> 1, title |-> t,
                username |-> u, password |-> p] :
                   id \in Ids, t \in {"Budi", "Siti"},
                   u \in {"guru", "budi", "siti"}, p \in {"Rahasia1", ""}})

Types == {"intra", "guru"}

\* collections of records as queries meet them: created, updated since,
\* dated by hand, with and without nested fields, of another type, each
\* record with its own backend identity
Collections ==
    LET Shapes ==
            {[type |-> "intra", author |-> "Administrator", approved |-> TRUE,
              createdAt |-> 1],
             [type |-> "intra", author |-> "Guru Matematika", approved |-> FALSE,
              createdAt |-> 2],
             [type |-> "intra", author |-> "Guru Matematika", approved |-> TRUE,
              createdAt |-> 1, updatedAt |-> 3],
             [type |-> "intra", author |-> "Administrator", approved |-> FALSE,
              date |-> 2, meta |-> [kelas |-> "7A"]],
             [type |-> "intra", author |-> "Guru Matematika", approved |-> TRUE,
              createdAt |-> 2, meta |-> [kelas |-> "8B"]],
             [type |-> "kelas", author |-> "Guru Matematika", approved |-> TRUE,
              createdAt |-> 2, meta |-> [kelas |-> "7A"]]}
    IN  {[i \in DOMAIN shapes |-> Spread(shapes[i], [__backendId |-> i])] :
            shapes \in UNION {[1..n -> Shapes] : n \in 0..MaxList}}

\* the filters callers pass: none, by author, left blank, by nested field
QueryFilters ==
    {EmptyObj,
     [author |-> "Guru Matematika"],
     [author |-> ""],
     [author |-> Undefined],
     [k \in {"meta.kelas"} |-> "7A"],
     [k \in {"meta.kelas", "author"} |-> IF k = "author" THEN "" ELSE "7A"],
     [k \in {"author.name"} |-> "Guru Matematika"]}

----------------------------------------------------------------------------
(* updateUsersFromData: the credential index *)

GuruCredentials(guru) ==
    [password |-> guru.password,
     role     |-> IF Truthy(guru, "role") THEN guru.role ELSE "guru",
     name     |-> Get(guru, "title"),
     nip      |-> Get(guru, "nip"),
     mapel    |-> Get(guru, "mapel")]

IsGuruUser(d) ==
    Get(d, "type") = "guru" /\ Truthy(d, "username") /\ Truthy(d, "password")

RECURSIVE AddGuruUsers(_, _)
AddGuruUsers(index, gurus) ==
    IF gurus = << >> THEN index
    ELSE AddGuruUsers(
            Spread(index, [u \in {Head(gurus).username} |-> GuruCredentials(Head(gurus))]),
            Tail(gurus))

\* the defaults written under the entries the index already holds
StartIndexUnderExisting(index) == Spread(defaultUsers, index)

\* Object.assign onto the existing index: never cleared, defaults written first
StartIndex(index) == Spread(index, defaultUsers)

updateUsersFromData(index, data) ==
    AddGuruUsers(StartIndex(index), SelectSeq(data, IsGuruUser))

----------------------------------------------------------------------------
(* The query cache *)

Filters == {EmptyObj, [author |-> "Guru Matematika"]}

\* JSON.stringify(filters): keys whose value is undefined are left out
JSONstringify(filters) ==
    [k \in {f \in DOMAIN filters : filters[f] # Undefined} |-> filters[k]]

cacheKey(type, filters) == <<type, JSONstringify(filters)>>

Miss == [hit |-> FALSE, data |-> << >>]

Fresh(entry, t) == t - entry.timestamp < cache_ttl

\* a lookup that does not ask whether caching is configured on
getCachedDataWhateverConfig(c, enabled, t, key) ==
    IF key \in DOMAIN c /\ Fresh(c[key], t)
    THEN [hit |-> TRUE, data |-> c[key].data]
    ELSE Miss

getCachedData(c, enabled, t, key) ==
    IF ~enabled THEN Miss
    ELSE IF key \in DOMAIN c /\ Fresh(c[key], t)
         THEN [hit |-> TRUE, data |-> c[key].data]
         ELSE Miss

setCachedData(c, enabled, t, key, data) ==
    IF ~enabled THEN c
    ELSE Spread(c, [k \in {key} |-> [data |-> data, timestamp |-> t]])

\* a clear that removes nothing
invalidateCacheKeepsEntries == cache

invalidateCache == EmptyObj

\* a sweep that also takes the entries whose age equals the ttl
SweptCacheAtTtl(c, t) ==
    [k \in {x \in DOMAIN c : ~(t - c[x].timestamp >= cache_ttl)} |-> c[k]]

\* the interval callback of setupCache
SweptCache(c, t) ==
    [k \in {x \in DOMAIN c : ~(t - c[x].timestamp > cache_ttl)} |-> c[k]]

----------------------------------------------------------------------------
(* getFilteredData *)

\* a role filter that lets teachers and counselors see every author
RoleVisibleTeachersSeeAll(user, d) ==
    IF ~LoggedIn(user) THEN TRUE
    ELSE IF user.role = "siswa" THEN "approved" \in DOMAIN d /\ d.approved = TRUE
    ELSE TRUE

RoleVisible(user, d) ==
    IF ~LoggedIn(user) THEN TRUE
    ELSE IF user.role = "siswa" THEN "approved" \in DOMAIN d /\ d.approved = TRUE
    ELSE IF user.role \in {"guru", "bk"} THEN Get(d, "author") = user.name
    ELSE TRUE

\* a test that lets the empty string through as a value to match
FilterAppliesWhenEmpty(filters, key) == filters[key] # Undefined

\* value !== undefined && value !== ''
FilterApplies(filters, key) ==
    filters[key] # Undefined /\ filters[key] # ""

\* key.split('.') of the filter keys in use
split(key) ==
    CASE key = "meta.kelas"  -> <<"meta", "kelas">>
      [] key = "author.name" -> <<"author", "name">>
      [] OTHER               -> <<key>>

\* for (const k of keys) itemValue = itemValue?.[k], started at an object
RECURSIVE Walk(_, _)
Walk(obj, keys) ==
    IF Head(keys) \notin DOMAIN obj THEN Undefined
    ELSE IF Len(keys) = 1
        THEN (IF Head(keys) \in ObjFields THEN "[object Object]" ELSE obj[Head(keys)])
    ELSE IF Head(keys) \in ObjFields THEN Walk(obj[Head(keys)], Tail(keys))
    ELSE Undefined

\* the predicate of one filter: key.includes('.') picks the path walk
MatchesFilter(item, key, value) ==
    IF Len(split(key)) > 1 THEN Walk(item, split(key)) = value
    ELSE key \in DOMAIN item /\ item[key] = value

MatchesFilters(filters, item) ==
    \A key \in DOMAIN filters :
        FilterApplies(filters, key) => MatchesFilter(item, key, filters[key])

\* new Date(x.createdAt || x.date)
SortDate(d) == IF Truthy(d, "createdAt") THEN d.createdAt ELSE d.date

\* Array.prototype.sort with (a, b) => date(b) - date(a): stable, newest first
InsertSorted(d, sorted) ==
    LET p == Cardinality({i \in DOMAIN sorted : SortDate(sorted[i]) >= SortDate(d)})
    IN  SubSeq(sorted, 1, p) \o <<d>> \o SubSeq(sorted, p + 1, Len(sorted))

RECURSIVE SortNewestFirst(_)
SortNewestFirst(s) ==
    IF s = << >> THEN << >>
    ELSE InsertSorted(s[Len(s)], SortNewestFirst(SubSeq(s, 1, Len(s) - 1)))

\* the miss path: type, role filter, user filters, sort
FilteredData(data, user, type, filters) ==
    LET ofType   == SelectSeq(data, LAMBDA d : Get(d, "type") = type)
        visible  == SelectSeq(ofType, LAMBDA d : RoleVisible(user, d))
        filtered == SelectSeq(visible, LAMBDA d : MatchesFilters(filters, d))
    IN  SortNewestFirst(filtered)

\* what getFilteredData returns, and the cache it leaves
QueryResult(c, enabled, t, data, user, type, filters) ==
    LET cached == getCachedData(c, enabled, t, cacheKey(type, filters))
    IN  IF cached.hit THEN cached.data ELSE FilteredData(data, user, type, filters)

QueryCache(c, enabled, t, data, user, type, filters) ==
    LET key == cacheKey(type, filters)
    IN  IF getCachedData(c, enabled, t, key).hit THEN c
        ELSE setCachedData(c, enabled, t, key, FilteredData(data, user, type, filters))

----------------------------------------------------------------------------
(* Validation: validateData and the validators it dispatches to *)

Valid == [valid |-> TRUE, message |-> ""]

Invalid(message) == [valid |-> FALSE, message |-> message]

\* `${field} wajib diisi`
RequiredMessage(field) == field \o " wajib diisi"

\* the characters of the strings that reach a regular expression or .length
Chars(s) ==
    CASE s = "198001012005011001" ->
            <<"1","9","8","0","0","1","0","1","2","0","0","5","0","1","1","0","0","1">>
      [] s = "12345"    -> <<"1","2","3","4","5">>
      [] s = "123456"   -> <<"1","2","3","4","5","6">>
      [] s = "Rahasia1" -> <<"R","a","h","a","s","i","a","1">>
      [] s = "rahasia1" -> <<"r","a","h","a","s","i","a","1">>
      [] s = "Rhs1"     -> <<"R","h","s","1">>
      [] s = "RAHASIA1" -> <<"R","A","H","A","S","I","A","1">>
      [] s = "Rahasiaa" -> <<"R","a","h","a","s","i","a","a">>
      [] s = "rahasiaa" -> <<"r","a","h","a","s","i","a","a">>
      [] s = "rhs"      -> <<"r","h","s">>
      [] s = "0012345678" -> <<"0","0","1","2","3","4","5","6","7","8">>
      [] s = "00123"    -> <<"0","0","1","2","3">>
      [] OTHER          -> << >>

Digits == {"0","1","2","3","4","5","6","7","8","9"}
Lower == {"a","b","c","d","e","f","g","h","i","j","k","l","m",
          "n","o","p","q","r","s","t","u","v","w","x","y","z"}
Upper == {"A","B","C","D","E","F","G","H","I","J","K","L","M",
          "N","O","P","Q","R","S","T","U","V","W","X","Y","Z"}

Contains(s, class) == \E i \in DOMAIN Chars(s) : Chars(s)[i] \in class

\* /^\d{18}$/
IsNip(s) == Len(Chars(s)) = 18 /\ \A i \in DOMAIN Chars(s) : Chars(s)[i] \in Digits

\* the first required field that is missing, in the order of the list
RECURSIVE FirstMissing(_, _)
FirstMissing(data, required) ==
    IF required = << >> THEN Undefined
    ELSE IF ~Truthy(data, Head(required)) THEN Head(required)
    ELSE FirstMissing(data, Tail(required))

\* the required fields of each validator, in the order it tests them
required(type) ==
    CASE type = "guru" ->
            <<"title", "nip", "mapel", "role", "username", "password">>
      [] type = "siswa" ->
            <<"title", "nisn", "jenis_kelamin", "class">>
      [] type = "kelas" ->
            <<"title", "tingkat", "jurusan">>
      [] type = "intra" ->
            <<"judul_modul", "mata_pelajaran", "kelas", "fase", "penulis">>
      [] type = "jurnal" ->
            <<"nama_guru", "kelas", "hari", "tanggal", "mata_pelajaran", "materi_pokok">>
      [] type = "absensi" ->
            <<"student_name", "class", "status", "date">>
      [] type = "nilai" ->
            <<"student_name", "class", "mata_pelajaran", "jenis_penilaian", "nilai", "date">>
      [] type = "perilaku" ->
            <<"student_name", "class", "jenis_perilaku", "catatan", "date">>
      [] type = "bk_absensi" ->
            <<"student_name", "class", "status", "date", "waktu">>
      [] type = "bk_pelanggaran" ->
            <<"student_name", "class", "kategori_pelanggaran", "jenis_pelanggaran", "lokasi", "kronologi", "tindak_lanjut">>

\* the uppercase test made before the lowercase test
validatePasswordUpperFirst(password) ==
    IF Len(Chars(password)) < password_min_length
        THEN Invalid("Password minimal 6 karakter")
    ELSE IF ~Contains(password, Upper) THEN Invalid("Password harus mengandung huruf besar")
    ELSE IF ~Contains(password, Lower) THEN Invalid("Password harus mengandung huruf kecil")
    ELSE IF ~Contains(password, Digits) THEN Invalid("Password harus mengandung angka")
    ELSE [valid |-> TRUE, message |-> "Password kuat"]

validatePassword(password) ==
    IF Len(Chars(password)) < password_min_length
        THEN Invalid("Password minimal 6 karakter")
    ELSE IF ~Contains(password, Lower) THEN Invalid("Password harus mengandung huruf kecil")
    ELSE IF ~Contains(password, Upper) THEN Invalid("Password harus mengandung huruf besar")
    ELSE IF ~Contains(password, Digits) THEN Invalid("Password harus mengandung angka")
    ELSE [valid |-> TRUE, message |-> "Password kuat"]

validateGuruData(index, data) ==
    LET missing == FirstMissing(data, required("guru"))
    IN  IF missing # Undefined THEN Invalid(RequiredMessage(missing))
        ELSE IF ~IsNip(data.nip) THEN Invalid("NIP harus 18 digit")
        ELSE IF ~validatePassword(data.password).valid THEN validatePassword(data.password)
        ELSE IF /\ data.username \in DOMAIN index
                /\ Get(index[data.username], "username") # data.username
            THEN Invalid("Username sudah digunakan")
        ELSE Valid

validateIntraData(data) ==
    LET missing == FirstMissing(data, required("intra"))
    IN  IF missing # Undefined THEN Invalid(RequiredMessage(missing)) ELSE Valid

\* /^\d{10}$/
IsNisn(s) == Len(Chars(s)) = 10 /\ \A i \in DOMAIN Chars(s) : Chars(s)[i] \in Digits

validateSiswaData(data) ==
    LET missing == FirstMissing(data, required("siswa"))
    IN  IF missing # Undefined THEN Invalid(RequiredMessage(missing))
        ELSE IF ~IsNisn(data.nisn) THEN Invalid("NISN harus 10 digit")
        ELSE IF data.jenis_kelamin \notin {"L", "P"} THEN Invalid("Jenis kelamin harus L atau P")
        ELSE Valid

validateKelasData(data) ==
    LET missing == FirstMissing(data, required("kelas"))
    IN  IF missing # Undefined THEN Invalid(RequiredMessage(missing))
        ELSE IF data.tingkat \notin {"X", "XI", "XII"} THEN Invalid("Tingkat harus X, XI, atau XII")
        ELSE Valid

\* the place of a time of day in the order of strings
StringRank(time) ==
    CASE time = "07:00" -> 1
      [] time = "09:00" -> 2

validateJurnalData(data) ==
    LET missing == FirstMissing(data, required("jurnal"))
    IN  IF missing # Undefined THEN Invalid(RequiredMessage(missing))
        ELSE IF /\ Truthy(data, "waktu_mulai") /\ Truthy(data, "waktu_selesai")
                /\ StringRank(data.waktu_mulai) >= StringRank(data.waktu_selesai)
            THEN Invalid("Waktu mulai harus sebelum waktu selesai")
        ELSE Valid

validateAbsensiData(data) ==
    LET missing == FirstMissing(data, required("absensi"))
    IN  IF missing # Undefined THEN Invalid(RequiredMessage(missing))
        ELSE IF data.status \notin {"Hadir", "Sakit", "Izin", "Alpha"}
            THEN Invalid("Status tidak valid")
        ELSE Valid

\* parseFloat of the scores in use
parseFloat(x) ==
    IF x.t = "number" THEN [nan |-> FALSE, value |-> x.v]
    ELSE CASE x.v = "85"  -> [nan |-> FALSE, value |-> 85]
           [] x.v = "0"   -> [nan |-> FALSE, value |-> 0]
           [] x.v = "100" -> [nan |-> FALSE, value |-> 100]
           [] x.v = "105" -> [nan |-> FALSE, value |-> 105]
           [] x.v = "-1"  -> [nan |-> FALSE, value |-> 0 - 1]
           [] OTHER       -> [nan |-> TRUE, value |-> 0]

validateNilaiData(data) ==
    LET missing == FirstMissing(data, required("nilai"))
    IN  IF missing # Undefined THEN Invalid(RequiredMessage(missing))
        ELSE LET nilai == parseFloat(data.nilai)
             IN  IF nilai.nan \/ nilai.value < 0 \/ nilai.value > 100
                 THEN Invalid("Nilai harus antara 0 dan 100")
                 ELSE Valid

validatePerilakuData(data) ==
    LET missing == FirstMissing(data, required("perilaku"))
    IN  IF missing # Undefined THEN Invalid(RequiredMessage(missing))
        ELSE IF data.jenis_perilaku \notin {"Positif", "Negatif", "Netral"}
            THEN Invalid("Jenis perilaku tidak valid")
        ELSE Valid

validateBKAbsensiData(data) ==
    LET missing == FirstMissing(data, required("bk_absensi"))
    IN  IF missing # Undefined THEN Invalid(RequiredMessage(missing))
        ELSE IF data.status \notin {"Hadir", "Sakit", "Izin", "Alpha", "Terlambat"}
            THEN Invalid("Status tidak valid")
        ELSE Valid

validateBKPelanggaranData(data) ==
    LET missing == FirstMissing(data, required("bk_pelanggaran"))
    IN  IF missing # Undefined THEN Invalid(RequiredMessage(missing))
        ELSE IF data.kategori_pelanggaran \notin {"Ringan", "Sedang", "Berat"}
            THEN Invalid("Kategori pelanggaran tidak valid")
        ELSE Valid

\* the field a validator reads first
FirstRead(type) ==
    CASE type = "intra" -> "judul_modul"
      [] type = "jurnal" -> "nama_guru"
      [] type \in {"absensi", "nilai", "perilaku", "bk_absensi", "bk_pelanggaran"}
            -> "student_name"
      [] OTHER -> "title"

\* the TypeError of data[field] when data is null: the call throws it
Thrown(field) ==
    [valid |-> FALSE, threw |-> TRUE,
     message |-> "Cannot read properties of null (reading '" \o field \o "')"]

validateData(index, type, data) ==
    IF data = Null THEN Thrown(FirstRead(type))
    ELSE IF type = "guru" THEN validateGuruData(index, data)
    ELSE IF type = "siswa" THEN validateSiswaData(data)
    ELSE IF type = "kelas" THEN validateKelasData(data)
    ELSE IF type = "intra" THEN validateIntraData(data)
    ELSE IF type = "jurnal" THEN validateJurnalData(data)
    ELSE IF type = "absensi" THEN validateAbsensiData(data)
    ELSE IF type = "nilai" THEN validateNilaiData(data)
    ELSE IF type = "perilaku" THEN validatePerilakuData(data)
    ELSE IF type = "bk_absensi" THEN validateBKAbsensiData(data)
    ELSE IF type = "bk_pelanggaran" THEN validateBKPelanggaranData(data)
    ELSE IF ~Truthy(data, "title") \/ ~Truthy(data, "content")
        THEN Invalid("Title dan content wajib diisi")
    ELSE Valid

----------------------------------------------------------------------------
(* Write eligibility and the records sent to the backend *)

\* a gate that also lets the principal through
canUpdateDataPrincipalToo(user, data) ==
    IF ~LoggedIn(user) THEN FALSE
    ELSE IF user.role \in {"admin", "kepsek"} THEN TRUE
    ELSE Get(data, "author") = user.name

canUpdateData(user, data) ==
    IF ~LoggedIn(user) THEN FALSE
    ELSE IF user.role = "admin" THEN TRUE
    ELSE Get(data, "author") = user.name

canDeleteData(user, data) ==
    IF ~LoggedIn(user) THEN FALSE
    ELSE IF user.role = "admin" THEN TRUE
    ELSE Get(data, "author") = user.name

\* the stamps written before ...data instead of after it
newDataStampsFirst(user, t, type, data) ==
    Spread(Spread([type |-> type],
                  [author    |-> user.name,
                   createdAt |-> t,
                   approved  |-> (user.role = "admin" \/ user.role = "kepsek")]),
           data)

\* an author stamp that gives way to an author among the fields
newDataAuthorFromFields(user, t, type, data) ==
    Spread(Spread([type |-> type], data),
           [author    |-> IF "author" \in DOMAIN data THEN data.author ELSE user.name,
            createdAt |-> t,
            approved  |-> (user.role = "admin" \/ user.role = "kepsek")])

\* the object literal of createData: type, then ...data, then the stamps
newData(user, t, type, data) ==
    Spread(Spread([type |-> type], data),
           [author    |-> user.name,
            createdAt |-> t,
            approved  |-> (user.role = "admin" \/ user.role = "kepsek")])

\* the object literal of updateData: ...existingData, ...data, updatedAt
updateDataRecord(t, existingData, data) ==
    Spread(Spread(existingData, data), [updatedAt |-> t])

\* allData.find(d => d.__backendId === id)
Found(data, id) == {i \in DOMAIN data : data[i].__backendId = id}

find(data, id) == data[CHOOSE i \in Found(data, id) : \A j \in Found(data, id) : i <= j]

----------------------------------------------------------------------------
(* Arguments the callers pass *)

IntraFields ==
    [judul_modul |-> "Modul", mata_pelajaran |-> "Matematika", kelas |-> "X-1",
     fase |-> "E", penulis |-> "Budi"]

GuruFields ==
    [title |-> "Budi", nip |-> "198001012005011001", mapel |-> "Matematika",
     role |-> "guru", username |-> "budi", password |-> "Rahasia1"]

\* one field set per type that meets every rule of its validator
ValidFields(type) ==
    CASE type = "guru" -> GuruFields
      [] type = "siswa" ->
            [title |-> "Ani", nisn |-> "0012345678", jenis_kelamin |-> "P", class |-> "X-1"]
      [] type = "kelas" -> [title |-> "X-1", tingkat |-> "X", jurusan |-> "IPA"]
      [] type = "intra" -> IntraFields
      [] type = "jurnal" ->
            [nama_guru |-> "Budi", kelas |-> "X-1", hari |-> "Senin",
             tanggal |-> "2024-05-01", mata_pelajaran |-> "Matematika",
             materi_pokok |-> "Aljabar"]
      [] type = "absensi" ->
            [student_name |-> "Ani", class |-> "X-1", status |-> "Hadir",
             date |-> "2024-05-01"]
      [] type = "nilai" ->
            [student_name |-> "Ani", class |-> "X-1", mata_pelajaran |-> "Matematika",
             jenis_penilaian |-> "Kuis", nilai |-> Num(85), date |-> "2024-05-01"]
      [] type = "perilaku" ->
            [student_name |-> "Ani", class |-> "X-1", jenis_perilaku |-> "Positif",
             catatan |-> "Rajin", date |-> "2024-05-01"]
      [] type = "bk_absensi" ->
            [student_name |-> "Ani", class |-> "X-1", status |-> "Terlambat",
             date |-> "2024-05-01", waktu |-> "07:00"]
      [] type = "bk_pelanggaran" ->
            [student_name |-> "Ani", class |-> "X-1", kategori_pelanggaran |-> "Ringan",
             jenis_pelanggaran |-> "Terlambat", lokasi |-> "Gerbang",
             kronologi |-> "Datang 07:30", tindak_lanjut |-> "Teguran"]
      [] OTHER -> [title |-> "Pengumuman", content |-> "Isi"]

ValidatedTypes ==
    {"guru", "siswa", "kelas", "intra", "jurnal", "absensi", "nilai", "perilaku",
     "bk_absensi", "bk_pelanggaran"}

\* other values that meet the rules
GoodValues(type) ==
    CASE type = "nilai" ->
            {[nilai |-> Num(0)], [nilai |-> Num(100)], [nilai |-> Str("85")],
             [nilai |-> Str("100")]}
      [] type = "jurnal" ->
            {[waktu_mulai |-> "07:00", waktu_selesai |-> "09:00"],
             [waktu_mulai |-> "09:00"]}
      [] type = "siswa" -> {[jenis_kelamin |-> "L"]}
      [] type = "kelas" -> {[tingkat |-> "XII"]}
      [] OTHER -> {}

Passwords ==
    {"Rahasia1", "rahasia1", "RAHASIA1", "Rahasiaa", "rahasiaa", "Rhs1", "rhs",
     "12345", "123456"}

\* values that break a rule of the type
BadValues(type) ==
    CASE type = "guru" ->
            {[nip |-> "12345"], [nip |-> "12345", password |-> "rahasia1"]}
            \cup {[password |-> p] : p \in Passwords \ {"Rahasia1"}}
      [] type = "siswa" ->
            {[nisn |-> "00123"], [jenis_kelamin |-> "X"],
             [nisn |-> "00123", jenis_kelamin |-> "X"]}
      [] type = "kelas" -> {[tingkat |-> "XIII"]}
      [] type = "jurnal" ->
            {[waktu_mulai |-> "09:00", waktu_selesai |-> "07:00"],
             [waktu_mulai |-> "09:00", waktu_selesai |-> "09:00"]}
      [] type = "absensi" -> {[status |-> "Terlambat"]}
      [] type = "nilai" ->
            {[nilai |-> Num(105)], [nilai |-> Num(0 - 1)], [nilai |-> Str("105")],
             [nilai |-> Str("abc")]}
      [] type = "perilaku" -> {[jenis_perilaku |-> "Buruk"]}
      [] type = "bk_absensi" -> {[status |-> "Bolos"]}
      [] type = "bk_pelanggaran" -> {[kategori_pelanggaran |-> "Fatal"]}
      [] OTHER -> {}

\* the field sets that meet the rules of the type
ValidCandidates(type) ==
    {Spread(ValidFields(type), value) : value \in {EmptyObj} \cup GoodValues(type)}

\* the arguments validateData is called with: the valid sets, a required
\* field deleted from them, a rule broken in them, and null
Candidates(type) ==
    {Spread(fields, value) :
        fields \in ValidCandidates(type)
                   \cup {[g \in DOMAIN valid \ {f} |-> valid[g]] :
                              valid \in ValidCandidates(type),
                              f \in DOMAIN ValidFields(type)},
        value \in {EmptyObj} \cup BadValues(type)}
    \cup {Null}

CreateInputs ==
    {IntraFields,
     Spread(IntraFields, [approved |-> TRUE]),
     Spread(IntraFields, [approved |-> FALSE]),
     [judul_modul |-> "Modul"],
     GuruFields,
     Spread(IntraFields, [type |-> "guru"]),
     Spread(IntraFields, [author |-> "Kepala Sekolah", createdAt |-> 1])}

UpdateInputs ==
    {EmptyObj, [approved |-> TRUE], [type |-> "guru"], [__backendId |-> MaxData],
     [author |-> "Administrator"]}

Pages == {"beranda", "intra"}

----------------------------------------------------------------------------
(* What a call leaves to observe: its arguments, the value it returned or  *)
(* the error it threw, and the record it handed to window.dataSdk          *)

Outcome(op, outcome, msg, args, result, sent) ==
    [op |-> op, outcome |-> outcome, msg |-> msg, args |-> args,
     result |-> result, sent |-> sent, hit |-> FALSE, shown |-> << >>,
     rendered |-> FALSE]

\* UIService.renderCurrentPage() during the call
Rendered(o, called) == [o EXCEPT !.rendered = called]

\* NotificationService.show(message, type) during the call
Notified(o, message, type) ==
    [o EXCEPT !.shown = <<[message |-> message, type |-> type]>>]

\* a catch block that rethrows without showing the error
CaughtSilently(o) == o

\* the catch block of a mutation: NotificationService.show('Error: ' + error.message, 'error')
Caught(o) == Notified(o, "Error: " \o o.msg, "error")

\* a call that returned
Returned(op) == Outcome(op, "returned", "", EmptyObj, << >>, EmptyObj)

\* a call that threw before it reached the backend
Rejected(op, args, msg) == Caught(Outcome(op, "rejected", msg, args, << >>, EmptyObj))

\* a call at its await, rec handed to the backend
Awaiting(op, args, rec) == Outcome(op, "awaiting", "", args, << >>, rec)

\* what window.dataSdk answers when it fails: isOk false and its own error
SdkFailure == [isOk |-> FALSE, error |-> "Quota exceeded"]

\* a call that threw after the backend answered result
Failed(op, msg) ==
    Caught(Outcome(op, "failed", msg, [result |-> SdkFailure], << >>, EmptyObj))

\* the error of a window.dataSdk call that throws instead of answering
SdkError == "Network error"

\* a call whose await threw: the catch block passes the error on
Threw(op, msg) == Caught(Outcome(op, "threw", msg, EmptyObj, << >>, EmptyObj))

SuccessMessage(op) ==
    CASE op = "createData" -> "Data berhasil disimpan"
      [] op = "updateData" -> "Data berhasil diupdate"
      [] op = "deleteData" -> "Data berhasil dihapus"

\* a mutation that returned after the backend answered isOk
Succeeded(op) == Notified(Returned(op), SuccessMessage(op), "success")

LimitMessage == "Batas maksimum data telah tercapai"
NotFoundMessage == "Data tidak ditemukan"
UpdateForbiddenMessage == "Tidak memiliki izin untuk mengupdate data ini"
DeleteForbiddenMessage == "Tidak memiliki izin untuk menghapus data ini"
CreateFailedMessage == "Gagal menyimpan data"
UpdateFailedMessage == "Gagal mengupdate data"
DeleteFailedMessage == "Gagal menghapus data"
TypeErrorMessage == "TypeError: AuthService.currentUser is null"

Remove(seq, i) == SubSeq(seq, 1, i - 1) \o SubSeq(seq, i + 1, Len(seq))

----------------------------------------------------------------------------
(* window.dataSdk.  The page's backend is a black box: it answers isOk or  *)
(* not and pushes snapshots as it pleases.  A probe in its place keeps the *)
(* calls it has not answered yet, next to pending, and the records it has  *)
(* accepted.                                                                *)

Unprobed == [probed |-> FALSE]

Probe(records) == [probed |-> TRUE, calls |-> << >>, records |-> records]

\* the calls window.dataSdk holds unanswered at once
Slots(sdk) == IF sdk.probed THEN MaxProbed ELSE MaxInflight

Received(sdk, call) ==
    IF sdk.probed THEN [sdk EXCEPT !.calls = Append(@, call)] ELSE sdk

\* the records of the probe once it accepted a call
Applied(records, call) ==
    CASE call.op = "createData" ->
            Append(records, Spread(call.sent, [__backendId |-> Len(records) + 1]))
      [] call.op = "updateData" ->
            [i \in DOMAIN records |->
                IF records[i].__backendId = Get(call.sent, "__backendId")
                THEN call.sent ELSE records[i]]
      [] call.op = "deleteData" ->
            SelectSeq(records,
                      LAMBDA d : d.__backendId # Get(call.sent, "__backendId"))

Answered(sdk, i, isOk) ==
    IF ~sdk.probed THEN sdk
    ELSE [calls   |-> Remove(sdk.calls, i),
          records |-> IF isOk THEN Applied(sdk.records, sdk.calls[i]) ELSE sdk.records,
          probed  |-> TRUE]

----------------------------------------------------------------------------
(* Initial state: the page has loaded, nobody is logged in, no snapshot yet *)

Init ==
    /\ allData = << >>
    /\ cache = EmptyObj
    /\ users = defaultUsers
    /\ currentUser = NoUser
    /\ currentPage = "beranda"
    /\ cache_enabled \in BOOLEAN
    /\ now = 0
    /\ pending = << >>
    /\ dataSdk = Unprobed
    /\ last = Returned("init")

----------------------------------------------------------------------------
(* Collaborators: the Auth service, the clock, the sweep timer *)

login(identity) ==
    /\ currentUser = NoUser
    /\ currentUser' = identity
    /\ last' = Returned("login")
    /\ UNCHANGED <<allData, cache, users, currentPage, cache_enabled, now, pending, dataSdk>>

logout ==
    /\ currentUser # NoUser
    /\ currentUser' = NoUser
    /\ last' = Returned("logout")
    /\ UNCHANGED <<allData, cache, users, currentPage, cache_enabled, now, pending, dataSdk>>

Tick ==
    /\ now < MaxTime
    /\ now' = now + 1
    /\ UNCHANGED <<allData, cache, users, currentUser, currentPage, cache_enabled,
                   pending, dataSdk, last>>

\* AppConfig.set('performance.cache_enabled', value)
setCacheEnabled(value) ==
    /\ value # cache_enabled
    /\ cache_enabled' = value
    /\ UNCHANGED <<allData, cache, users, currentUser, currentPage, now, pending, dataSdk, last>>

sweep ==
    /\ cache_enabled
    /\ cache' = SweptCache(cache, now)
    /\ cache' # cache
    /\ UNCHANGED <<allData, users, currentUser, currentPage, cache_enabled, now,
                   pending, dataSdk, last>>

----------------------------------------------------------------------------
(* Reads *)

getFilteredData(type, filters) ==
    /\ last' = [Outcome("getFilteredData", "returned", "",
                        [type |-> type, filters |-> filters],
                        QueryResult(cache, cache_enabled, now, allData, currentUser, type, filters),
                        EmptyObj)
                 EXCEPT !.hit = getCachedData(cache, cache_enabled, now,
                                              cacheKey(type, filters)).hit]
    /\ cache' = QueryCache(cache, cache_enabled, now, allData, currentUser, type, filters)
    /\ UNCHANGED <<allData, users, currentUser, currentPage, cache_enabled, now, pending, dataSdk>>

\* renderCurrentPage: the intra page pulls its table through getFilteredData
RenderedCache(c, enabled, t, data, user, page) ==
    IF page = "intra" THEN QueryCache(c, enabled, t, data, user, "intra", EmptyObj) ELSE c

hasPermission(user, page) == LoggedIn(user)

navigateTo(page) ==
    /\ hasPermission(currentUser, page)
    /\ currentPage' = page
    /\ cache' = RenderedCache(cache, cache_enabled, now, allData, currentUser, page)
    /\ last' = Rendered(Returned("navigateTo"), TRUE)
    /\ UNCHANGED <<allData, users, currentUser, cache_enabled, now, pending, dataSdk>>

----------------------------------------------------------------------------
(* Resynchronisation *)

\* a resync that adds the snapshot to the collection it finds
handleDataChangeMerging(data) ==
    /\ allData' = allData \o data
    /\ users' = updateUsersFromData(users, data)
    /\ cache' = IF LoggedIn(currentUser)
                THEN RenderedCache(invalidateCache, cache_enabled, now, allData \o data,
                                   currentUser, currentPage)
                ELSE invalidateCache
    /\ last' = Rendered(Outcome("handleDataChange", "returned", "", [data |-> data],
                                << >>, EmptyObj),
                        LoggedIn(currentUser))
    /\ UNCHANGED <<currentUser, currentPage, cache_enabled, now, pending, dataSdk>>

\* a resync that leaves the cache as it finds it
handleDataChangeKeepsCache(data) ==
    /\ allData' = data
    /\ users' = updateUsersFromData(users, data)
    /\ cache' = IF LoggedIn(currentUser)
                THEN RenderedCache(cache, cache_enabled, now, data, currentUser,
                                   currentPage)
                ELSE cache
    /\ last' = Rendered(Outcome("handleDataChange", "returned", "", [data |-> data],
                                << >>, EmptyObj),
                        LoggedIn(currentUser))
    /\ UNCHANGED <<currentUser, currentPage, cache_enabled, now, pending, dataSdk>>

handleDataChange(data) ==
    /\ allData' = data
    /\ users' = updateUsersFromData(users, data)
    /\ cache' = IF LoggedIn(currentUser)
                THEN RenderedCache(invalidateCache, cache_enabled, now, data,
                                   currentUser, currentPage)
                ELSE invalidateCache
    /\ last' = Rendered(Outcome("handleDataChange", "returned", "", [data |-> data],
                                << >>, EmptyObj),
                        LoggedIn(currentUser))
    /\ UNCHANGED <<currentUser, currentPage, cache_enabled, now, pending, dataSdk>>

\* a handler that drops the collection when the backend reports an error
handleDataErrorDropsData(error) ==
    /\ allData' = << >>
    /\ cache' = invalidateCache
    /\ last' = Notified(Outcome("handleDataError", "returned", "", [error |-> error],
                                << >>, EmptyObj),
                        "Terjadi kesalahan pada data: " \o error, "error")
    /\ UNCHANGED <<users, currentUser, currentPage, cache_enabled, now, pending, dataSdk>>

\* onError of window.dataSdk.init
handleDataError(error) ==
    /\ last' = Notified(Outcome("handleDataError", "returned", "", [error |-> error],
                                << >>, EmptyObj),
                        "Terjadi kesalahan pada data: " \o error, "error")
    /\ UNCHANGED <<allData, cache, users, currentUser, currentPage, cache_enabled,
                   now, pending, dataSdk>>

----------------------------------------------------------------------------
(* The dashboard figures *)

\* the keys of stats
StatisticsTypes ==
    {"intra", "kokurikuler", "jurnal", "siswa", "guru", "absensi", "nilai",
     "perilaku", "bk_absensi", "bk_pelanggaran"}

\* the stats object: allData.filter(d => d.type === t).length for each key
Statistics(data) ==
    [t \in StatisticsTypes |-> Len(SelectSeq(data, LAMBDA d : Get(d, "type") = t))]

\* figures taken from the records the current identity may see
getStatisticsOfVisible ==
    /\ last' = Outcome("getStatistics", "returned", "", EmptyObj,
                       Statistics(SelectSeq(allData,
                                            LAMBDA d : RoleVisible(currentUser, d))),
                       EmptyObj)
    /\ UNCHANGED <<allData, cache, users, currentUser, currentPage, cache_enabled,
                   now, pending, dataSdk>>

getStatistics ==
    /\ last' = Outcome("getStatistics", "returned", "", EmptyObj, Statistics(allData),
                       EmptyObj)
    /\ UNCHANGED <<allData, cache, users, currentUser, currentPage, cache_enabled,
                   now, pending, dataSdk>>

----------------------------------------------------------------------------
(* The validators called on their own: a call returns its verdict or       *)
(* throws, and touches nothing.                                             *)

\* DataService.validateData(type, data)
validateDataCall(type, data) ==
    LET validation == validateData(users, type, data)
        args == [type |-> type, data |-> data]
    IN  /\ last' = IF "threw" \in DOMAIN validation
                   THEN Outcome("validateData", "threw", validation.message, args,
                                << >>, EmptyObj)
                   ELSE Outcome("validateData", "returned", "", args, validation,
                                EmptyObj)
        /\ UNCHANGED <<allData, cache, users, currentUser, currentPage, cache_enabled,
                       now, pending, dataSdk>>

\* SecurityService.validatePassword(password)
validatePasswordCall(password) ==
    /\ last' = Outcome("validatePassword", "returned", "", [password |-> password],
                       validatePassword(password), EmptyObj)
    /\ UNCHANGED <<allData, cache, users, currentUser, currentPage, cache_enabled,
                   now, pending, dataSdk>>

----------------------------------------------------------------------------
(* Mutations.  Each call runs to its await of window.dataSdk (or throws     *)
(* before it) and then waits in pending until the backend answers; the     *)
(* code after the await reads nothing but the answer.                      *)

\* the catch block: the error is shown and thrown on
Reject(op, args, msg) ==
    /\ last' = Rejected(op, args, msg)
    /\ UNCHANGED <<allData, cache, users, currentUser, currentPage, cache_enabled,
                   now, pending, dataSdk>>

\* await window.dataSdk.<op>(rec)
Send(op, args, rec) ==
    /\ Len(pending) < Slots(dataSdk)
    /\ pending' = Append(pending, op)
    /\ dataSdk' = Received(dataSdk, [op |-> op, args |-> args, sent |-> rec])
    /\ last' = Awaiting(op, args, rec)
    /\ UNCHANGED <<allData, cache, users, currentUser, currentPage, cache_enabled, now>>

\* a capacity check that lets a full collection through
createDataOverCapacityOnly(type, data) ==
    LET validation == validateData(users, type, data)
        args == [type |-> type, data |-> data]
    IN  IF ~validation.valid THEN Reject("createData", args, validation.message)
        ELSE IF Len(allData) > max_data_items THEN Reject("createData", args, LimitMessage)
        ELSE IF ~LoggedIn(currentUser) THEN Reject("createData", args, TypeErrorMessage)
        ELSE Send("createData", args, newData(currentUser, now, type, data))

\* a create that looks at the capacity before it validates
createDataCapacityFirst(type, data) ==
    LET validation == validateData(users, type, data)
        args == [type |-> type, data |-> data]
    IN  IF Len(allData) >= max_data_items THEN Reject("createData", args, LimitMessage)
        ELSE IF ~validation.valid THEN Reject("createData", args, validation.message)
        ELSE IF ~LoggedIn(currentUser) THEN Reject("createData", args, TypeErrorMessage)
        ELSE Send("createData", args, newData(currentUser, now, type, data))

createData(type, data) ==
    LET validation == validateData(users, type, data)
        args == [type |-> type, data |-> data]
    IN  IF ~validation.valid THEN Reject("createData", args, validation.message)
        ELSE IF Len(allData) >= max_data_items THEN Reject("createData", args, LimitMessage)
        ELSE IF ~LoggedIn(currentUser) THEN Reject("createData", args, TypeErrorMessage)
        ELSE Send("createData", args, newData(currentUser, now, type, data))

\* an update that asks the gate before it looks the record up
updateDataGateFirst(id, data) ==
    LET args == [id |-> id, data |-> data]
    IN  IF currentUser.role # "admin" /\ Found(allData, id) = {}
            THEN Reject("updateData", args, UpdateForbiddenMessage)
        ELSE IF Found(allData, id) = {} THEN Reject("updateData", args, NotFoundMessage)
        ELSE IF ~canUpdateData(currentUser, find(allData, id))
            THEN Reject("updateData", args, UpdateForbiddenMessage)
        ELSE Send("updateData", args, updateDataRecord(now, find(allData, id), data))

\* an update that waits its turn behind an update still in flight
updateDataOneAtATime(id, data) ==
    LET args == [id |-> id, data |-> data]
    IN  IF Found(allData, id) = {} THEN Reject("updateData", args, NotFoundMessage)
        ELSE IF ~canUpdateData(currentUser, find(allData, id))
            THEN Reject("updateData", args, UpdateForbiddenMessage)
        ELSE IF \E i \in DOMAIN pending : pending[i] = "updateData"
            THEN Reject("updateData", args, UpdateFailedMessage)
        ELSE Send("updateData", args, updateDataRecord(now, find(allData, id), data))

updateData(id, data) ==
    LET args == [id |-> id, data |-> data]
    IN  IF Found(allData, id) = {} THEN Reject("updateData", args, NotFoundMessage)
        ELSE IF ~canUpdateData(currentUser, find(allData, id))
            THEN Reject("updateData", args, UpdateForbiddenMessage)
        ELSE Send("updateData", args, updateDataRecord(now, find(allData, id), data))

deleteData(id) ==
    LET args == [id |-> id]
    IN  IF Found(allData, id) = {} THEN Reject("deleteData", args, NotFoundMessage)
        ELSE IF ~canDeleteData(currentUser, find(allData, id))
            THEN Reject("deleteData", args, DeleteForbiddenMessage)
        ELSE Send("deleteData", args, find(allData, id))

\* a completion that clears the cache whatever the backend answered
ResumeClearsAlways(i, op, isOk, failedMessage) ==
    /\ i \in DOMAIN pending
    /\ pending[i] = op
    /\ pending' = Remove(pending, i)
    /\ dataSdk' = Answered(dataSdk, i, isOk)
    /\ cache' = invalidateCache
    /\ last' = IF isOk THEN Succeeded(op) ELSE Failed(op, failedMessage)
    /\ UNCHANGED <<allData, users, currentUser, currentPage, cache_enabled, now>>

\* the code after the await: result.isOk decides
Resume(i, op, isOk, failedMessage) ==
    /\ i \in DOMAIN pending
    /\ pending[i] = op
    /\ pending' = Remove(pending, i)
    /\ dataSdk' = Answered(dataSdk, i, isOk)
    /\ cache' = IF isOk THEN invalidateCache ELSE cache
    /\ last' = IF isOk THEN Succeeded(op) ELSE Failed(op, failedMessage)
    /\ UNCHANGED <<allData, users, currentUser, currentPage, cache_enabled, now>>

\* a completion that also appends a record to the collection
createDataResultOptimistic(i, isOk) ==
    /\ i \in DOMAIN pending
    /\ pending[i] = "createData"
    /\ pending' = Remove(pending, i)
    /\ dataSdk' = Answered(dataSdk, i, isOk)
    /\ cache' = IF isOk THEN invalidateCache ELSE cache
    /\ allData' = IF isOk THEN Append(allData, [type |-> "intra"]) ELSE allData
    /\ last' = IF isOk THEN Succeeded("createData") ELSE Failed("createData", CreateFailedMessage)
    /\ UNCHANGED <<users, currentUser, currentPage, cache_enabled, now>>

\* the awaited window.dataSdk call of pending[i] throws
sdkThrows(i) ==
    /\ i \in DOMAIN pending
    /\ pending' = Remove(pending, i)
    /\ dataSdk' = Answered(dataSdk, i, FALSE)
    /\ last' = Threw(pending[i], SdkError)
    /\ UNCHANGED <<allData, cache, users, currentUser, currentPage, cache_enabled, now>>

createDataResult(i, isOk) == Resume(i, "createData", isOk, CreateFailedMessage)

updateDataResult(i, isOk) == Resume(i, "updateData", isOk, UpdateFailedMessage)

deleteDataResult(i, isOk) == Resume(i, "deleteData", isOk, DeleteFailedMessage)

----------------------------------------------------------------------------
(* The store under every interleaving of its callers and callbacks.        *)
(* Spec follows the read path: queries, renders, the cache and its clock,  *)
(* identities and resyncs.                                                 *)

Identity ==
    \/ \E identity \in Identities : login(identity)
    \/ logout

Results ==
    \/ \E i \in 1..MaxInflight, isOk \in BOOLEAN : createDataResult(i, isOk)
    \/ \E i \in 1..MaxInflight, isOk \in BOOLEAN : updateDataResult(i, isOk)
    \/ \E i \in 1..MaxInflight, isOk \in BOOLEAN : deleteDataResult(i, isOk)
    \/ \E i \in 1..MaxInflight : sdkThrows(i)

Next ==
    \/ Identity
    \/ Tick
    \/ sweep
    \/ \E filters \in Filters : getFilteredData("intra", filters)
    \/ \E page \in Pages : navigateTo(page)
    \/ \E data \in IntraSnapshots : handleDataChange(data)

Spec == Init /\ [][Next]_vars

(* CoherenceSpec follows the cache through mutations of lesson plans and   *)
(* resyncs within one session: caching configured on, and the              *)
(* administrator or a teacher logging in at some point and staying.        *)

CachedInit == Init /\ cache_enabled

Editors == {identity \in Identities : identity.role \in {"admin", "guru"}}

CoherenceNext ==
    \/ \E identity \in Editors : login(identity)
    \/ Tick
    \/ \E filters \in Filters : getFilteredData("intra", filters)
    \/ \E page \in Pages : navigateTo(page)
    \/ \E data \in UnapprovedSnapshots : handleDataChange(data)
    \/ createData("intra", IntraFields)
    \/ \E id \in Ids : updateData(id, EmptyObj)
    \/ \E id \in Ids : deleteData(id)
    \/ Results

CoherenceSpec == CachedInit /\ [][CoherenceNext]_vars

(* WriteSpec follows the write path with every argument of CreateInputs    *)
(* and UpdateInputs, at a fixed instant, without queries, caching on.       *)

WriteNext ==
    \/ Identity
    \/ \E data \in IntraSnapshots : handleDataChange(data)
    \/ \E type \in Types, data \in CreateInputs : createData(type, data)
    \/ \E id \in Ids, data \in UpdateInputs : updateData(id, data)
    \/ \E id \in Ids : deleteData(id)
    \/ Results

WriteSpec == CachedInit /\ [][WriteNext]_vars

(* ConfigSpec follows queries while the caching switch is turned off and   *)
(* on between them.                                                        *)

ConfigNext ==
    \/ \E identity \in Editors : login(identity)
    \/ Tick
    \/ \E value \in BOOLEAN : setCacheEnabled(value)
    \/ \E filters \in Filters : getFilteredData("intra", filters)
    \/ \E data \in UnapprovedSnapshots : handleDataChange(data)

ConfigSpec == Init /\ [][ConfigNext]_vars

(* FaultSpec follows a session in which the backend also reports errors    *)
(* through onError.                                                        *)

FaultNext ==
    \/ \E identity \in Editors : login(identity)
    \/ Tick
    \/ \E filters \in Filters : getFilteredData("intra", filters)
    \/ \E page \in Pages : navigateTo(page)
    \/ \E data \in UnapprovedSnapshots : handleDataChange(data)
    \/ handleDataError(SdkError)

FaultSpec == Init /\ [][FaultNext]_vars

(* ValidationSpec calls the validators with the candidates of every type,  *)
(* between snapshots that put a teacher into the credential index.         *)

TeacherSnapshots ==
    {<< >>} \cup
    {<<Spread(fields, [type |-> "guru", __backendId |-> 1, author |-> "Administrator",
                       approved |-> TRUE, createdAt |-> 1])>> :
        fields \in {GuruFields,
                    Spread(GuruFields, [title |-> "Siti", nip |-> "198502022010012002"])}}

ValidationNext ==
    \* "pengumuman" has no validator
    \/ \E type \in ValidatedTypes \cup {"pengumuman"} : \E data \in Candidates(type) :
            validateDataCall(type, data)
    \/ \E password \in Passwords : validatePasswordCall(password)
    \/ \E data \in TeacherSnapshots : handleDataChange(data)

ValidationSpec == Init /\ [][ValidationNext]_vars

(* RaceSpec interleaves queries, resyncs, sweeps and mutations with their  *)
(* completions in the session of one identity: whoever is logged in stays, *)
(* on the page they are on, and caching stays configured on.               *)

\* the teacher's lesson plans, approved or not
RaceSnapshots == Snapshots({d \in IntraRecords : d.author = "Guru Matematika"})

RaceInit ==
    /\ allData = << >>
    /\ cache = EmptyObj
    /\ users = defaultUsers
    /\ currentUser \in {identity \in Identities : identity.role \in {"guru", "siswa"}}
    /\ currentPage \in Pages
    /\ cache_enabled = TRUE
    /\ now = 0
    /\ pending = << >>
    /\ dataSdk = Unprobed
    /\ last = Returned("login")

RaceNext ==
    \/ Tick
    \/ sweep
    \/ \E filters \in Filters : getFilteredData("intra", filters)
    \/ \E data \in RaceSnapshots : handleDataChange(data)
    \/ createData("intra", IntraFields)
    \/ \E id \in Ids : updateData(id, [approved |-> TRUE])
    \/ \E id \in Ids : deleteData(id)
    \/ Results

RaceSpec == RaceInit /\ [][RaceNext]_vars

(* ConcurrentSpec starts updates of one record while earlier ones are      *)
(* still with the backend, in the session of an editor who holds one       *)
(* snapshot, at a fixed instant: no resync arrives, and the probe answers  *)
(* in any order.                                                           *)

ConcurrentInit ==
    /\ allData \in RaceSnapshots
    /\ cache = EmptyObj
    /\ users = defaultUsers
    /\ currentUser \in Editors
    /\ currentPage = "beranda"
    /\ cache_enabled = TRUE
    /\ now = 0
    /\ pending = << >>
    /\ dataSdk = Probe(allData)
    /\ last = Returned("handleDataChange")

ConcurrentNext ==
    \/ \E id \in Ids, data \in UpdateInputs : updateData(id, data)
    \/ \E i \in 1..MaxProbed, isOk \in BOOLEAN : updateDataResult(i, isOk)
    \/ \E i \in 1..MaxProbed : sdkThrows(i)

ConcurrentSpec == ConcurrentInit /\ [][ConcurrentNext]_vars

(* SweepSpec follows the cache of one snapshot through queries and time,   *)
(* caching configured on: setInterval keeps calling the sweep, so a sweep  *)
(* that has something to remove is not put off forever.                    *)

SweepInit ==
    /\ allData \in IntraSnapshots
    /\ cache = EmptyObj
    /\ users = defaultUsers
    /\ currentUser = NoUser
    /\ currentPage = "beranda"
    /\ cache_enabled = TRUE
    /\ now = 0
    /\ pending = << >>
    /\ dataSdk = Unprobed
    /\ last = Returned("handleDataChange")

SweepNext ==
    \/ Tick
    \/ sweep
    \/ \E type \in Types, filters \in Filters : getFilteredData(type, filters)

SweepSpec == SweepInit /\ [][SweepNext]_vars /\ WF_vars(sweep)

(* GradeSpec writes grades: createData with every grade candidate, and     *)
(* updateData of a stored grade with partial fields, by an editor.         *)

GradeInit ==
    /\ allData \in
        {<< >>,
         <<Spread(ValidFields("nilai"),
                  [type |-> "nilai", __backendId |-> 1, author |-> "Guru Matematika",
                   approved |-> FALSE, createdAt |-> 1])>>}
    /\ cache = EmptyObj
    /\ users = defaultUsers
    /\ currentUser \in Editors
    /\ currentPage = "beranda"
    /\ cache_enabled = TRUE
    /\ now = 0
    /\ pending = << >>
    /\ dataSdk = Unprobed
    /\ last = Returned("handleDataChange")

GradeNext ==
    \/ \E data \in Candidates("nilai") : createData("nilai", data)
    \/ \E id \in Ids,
          data \in {[nilai |-> Num(90)], [nilai |-> Num(105)], [nilai |-> Str("abc")],
                    [date |-> ""], [catatan |-> "Remedial"]} :
            updateData(id, data)
    \/ \E i \in 1..MaxInflight, isOk \in BOOLEAN : createDataResult(i, isOk)
    \/ \E i \in 1..MaxInflight, isOk \in BOOLEAN : updateDataResult(i, isOk)
    \/ \E i \in 1..MaxInflight : sdkThrows(i)

GradeSpec == GradeInit /\ [][GradeNext]_vars

(* AcceptingSpec runs creates against a probe that accepts every create it *)
(* is handed and pushes, whenever it pleases, a snapshot of exactly the    *)
(* records it has accepted.  The probe stops taking calls once it holds    *)
(* MaxProbed records more than the configured maximum.                     *)

AcceptingInit ==
    /\ allData = << >>
    /\ cache = EmptyObj
    /\ users = defaultUsers
    /\ currentUser \in Identities
    /\ currentPage = "beranda"
    /\ cache_enabled = TRUE
    /\ now = 0
    /\ pending = << >>
    /\ dataSdk = Probe(<< >>)
    /\ last = Returned("login")

AcceptingNext ==
    \/ Tick
    \/ \E data \in {d \in {IntraFields, [judul_modul |-> "Modul"]} :
                        Len(dataSdk.records) + Len(dataSdk.calls)
                            < max_data_items + MaxProbed} :
            createData("intra", data)
    \/ \E i \in 1..MaxProbed : createDataResult(i, TRUE)
    \/ handleDataChange(dataSdk.records)

AcceptingSpec == AcceptingInit /\ [][AcceptingNext]_vars

(* VisitorSpec puts queries and mutations to the store before a login,     *)
(* between sessions and within them, at a fixed instant.                   *)

VisitorNext ==
    \/ Identity
    \/ \E data \in IntraSnapshots : handleDataChange(data)
    \/ \E filters \in Filters : getFilteredData("intra", filters)
    \/ \E data \in {IntraFields, [judul_modul |-> "Modul"]} : createData("intra", data)
    \/ \E id \in Ids : updateData(id, [approved |-> TRUE])
    \/ \E id \in Ids : deleteData(id)
    \/ Results

VisitorSpec == CachedInit /\ [][VisitorNext]_vars

(* StatisticsSpec asks for the dashboard figures under every identity,     *)
(* between snapshots of Collections.                                       *)

StatisticsNext ==
    \/ Identity
    \/ \E data \in Collections : handleDataChange(data)
    \/ getStatistics

StatisticsSpec == Init /\ [][StatisticsNext]_vars

(* CapacitySpec puts createData to collections below, at and above the     *)
(* configured maximum.                                                     *)

CapacityInit ==
    /\ allData \in
        {[i \in 1..n |-> [type |-> "intra", __backendId |-> i,
                          author |-> "Administrator", approved |-> TRUE,
                          createdAt |-> 1]] : n \in 0..(max_data_items + 1)}
    /\ cache = EmptyObj
    /\ users = defaultUsers
    /\ currentUser = NoUser
    /\ currentPage = "beranda"
    /\ cache_enabled \in BOOLEAN
    /\ now = 0
    /\ pending = << >>
    /\ dataSdk = Unprobed
    /\ last = Returned("init")

CapacityNext ==
    \/ Identity
    \/ \E type \in Types, data \in CreateInputs : createData(type, data)
    \/ \E i \in 1..MaxInflight, isOk \in BOOLEAN : createDataResult(i, isOk)

CapacitySpec == CapacityInit /\ [][CapacityNext]_vars

(* QuerySpec puts getFilteredData to every collection of Collections,     *)
(* under every identity, with every filter of QueryFilters.                *)

QueryInit ==
    /\ allData \in Collections
    /\ cache = EmptyObj
    /\ users = defaultUsers
    /\ currentUser \in Identities \cup {NoUser}
    /\ currentPage = "beranda"
    /\ cache_enabled \in BOOLEAN
    /\ now = 0
    /\ pending = << >>
    /\ dataSdk = Unprobed
    /\ last = Returned("init")

QueryNext == \E filters \in QueryFilters : getFilteredData("intra", filters)

QuerySpec == QueryInit /\ [][QueryNext]_vars

(* UsersSpec follows the credential index through snapshots of teachers.   *)

UsersNext == \E data \in GuruSnapshots : handleDataChange(data)

UsersSpec == Init /\ [][UsersNext]_vars

----------------------------------------------------------------------------
(* Properties.  login, logout, handleDataChange and every call write last, *)
(* so while last shows a call that has not gone past its await, allData    *)
(* and currentUser are still the ones that call read.                      *)

AtCall(op) == last.op = op /\ last.outcome \in {"rejected", "awaiting"}

Unapproved(list) ==
    {i \in DOMAIN list : ~("approved" \in DOMAIN list[i] /\ list[i].approved = TRUE)}

\* C1: a getFilteredData call made while the current identity has the student
\* role returns no record whose approved flag is not true.
C1_StudentResultsApproved ==
    (last.op = "getFilteredData" /\ currentUser.role = "siswa")
        => Unapproved(last.result) = {}

\* C2: for a logged-in identity whose role is not admin, updateData and
\* deleteData on an existing record of another author reject with the
\* permission error and send nothing to the backend.
C2_GateRejectsOtherAuthors ==
    \A op \in {"updateData", "deleteData"} :
        ( /\ AtCall(op)
          /\ Found(allData, last.args.id) # {}
          /\ LoggedIn(currentUser)
          /\ currentUser.role # "admin"
          /\ find(allData, last.args.id).author # currentUser.name )
        => /\ last.outcome = "rejected"
           /\ last.sent = EmptyObj
           /\ last.msg = IF op = "updateData" THEN UpdateForbiddenMessage
                         ELSE DeleteForbiddenMessage

C2_Witness ==
    /\ AtCall("updateData")
    /\ last.msg = UpdateForbiddenMessage
    /\ currentUser.role = "kepsek"
    /\ Found(allData, last.args.id) # {}
    /\ find(allData, last.args.id).author # currentUser.name

SuccessfulMutation ==
    \E i \in DOMAIN pending :
        createDataResult(i, TRUE) \/ updateDataResult(i, TRUE) \/ deleteDataResult(i, TRUE)

\* a step of handleDataChange, whatever snapshot it delivers
Resync == last'.op = "handleDataChange" /\ handleDataChange(allData')

\* C3 as stated: right after a successful createData, updateData, deleteData
\* or handleDataChange the cache holds no entry.
C3_CacheEmptyAfterSuccess ==
    [][(SuccessfulMutation \/ Resync) => cache' = EmptyObj]_vars

\* C3 as amended: right after a successful createData, updateData or
\* deleteData the cache holds no entry; right after handleDataChange it holds
\* nothing but what the page re-render of that call computed from the new
\* collection.
C3_NoEntryFromBefore ==
    [][ /\ SuccessfulMutation => cache' = EmptyObj
        /\ Resync =>
              \A key \in DOMAIN cache' :
                    /\ key = cacheKey("intra", EmptyObj)
                    /\ LoggedIn(currentUser') /\ currentPage' = "intra"
                    /\ cache'[key].timestamp = now'
                    /\ cache'[key].data = FilteredData(allData', currentUser', "intra", EmptyObj)
      ]_vars

C3_Witness ==
    /\ last.op = "handleDataChange"
    /\ now > 0
    /\ cacheKey("intra", EmptyObj) \in DOMAIN cache
    /\ cache[cacheKey("intra", EmptyObj)].timestamp = now
    /\ cache[cacheKey("intra", EmptyObj)].data # << >>

\* C4: createData, updateData and deleteData never change allData, whether
\* the backend call succeeds or fails; only handleDataChange replaces it.
C4_OnlyResyncChangesCollection ==
    [][allData' # allData => (last'.op = "handleDataChange" /\ last'.outcome = "returned")]_vars

C4_Witness ==
    /\ last.op = "createData"
    /\ last.outcome = "returned"
    /\ allData = << >>

\* C5: a getFilteredData call that repeats the previous call (same type and
\* filters, same identity, nothing but time and sweeps in between) returns an
\* equal list.
C5_RepeatedQueryEqual ==
    [][\A filters \in Filters :
        ( /\ last.op = "getFilteredData"
          /\ cacheKey(last.args.type, last.args.filters) = cacheKey("intra", filters)
          /\ getFilteredData("intra", filters) )
        => last'.result = last.result
      ]_vars

\* C6: the record createData sends has approved = true exactly when the
\* creator's role is admin or principal, whatever the fields carry.
C6_ApprovedIffAutoApproveRole ==
    (AtCall("createData") /\ last.outcome = "awaiting")
        => (last.sent.approved = TRUE <=> currentUser.role \in {"admin", "kepsek"})

C6_Witness ==
    /\ AtCall("createData")
    /\ last.outcome = "awaiting"
    /\ currentUser.role = "guru"
    /\ "approved" \in DOMAIN last.args.data
    /\ last.args.data.approved = TRUE
    /\ last.sent.approved = FALSE

\* C7: no updateData call of a teacher, counselor or student sends a record
\* whose approved flag went from false to true.
C7_NoSelfApproval ==
    ( /\ AtCall("updateData")
      /\ last.outcome = "awaiting"
      /\ currentUser.role \in {"guru", "bk", "siswa"} )
        => ~( /\ find(allData, last.args.id).approved = FALSE
              /\ last.sent.approved = TRUE )

\* C8: the record updateData sends has the type tag and the __backendId of
\* the existing record it looked up.
C8_UpdateKeepsTypeAndId ==
    (AtCall("updateData") /\ last.outcome = "awaiting")
        => /\ last.sent.type = find(allData, last.args.id).type
           /\ last.sent.__backendId = find(allData, last.args.id).__backendId

\* the teacher records of a snapshot that carry a username and a password
GuruUsersAt(data, username) ==
    {i \in DOMAIN data : IsGuruUser(data[i]) /\ data[i].username = username}

LastOf(set) == CHOOSE i \in set : \A j \in set : j <= i

\* the seed accounts overlaid by the teacher records of a snapshot
SeedsOverlaid(data) ==
    [u \in SeedNames \cup {data[i].username : i \in {j \in DOMAIN data : IsGuruUser(data[j])}} |->
        IF GuruUsersAt(data, u) # {}
        THEN GuruCredentials(data[LastOf(GuruUsersAt(data, u))])
        ELSE defaultUsers[u]]

\* C9: after handleDataChange(records) the credential index is exactly the
\* seed accounts overlaid by the teacher records of that snapshot.
C9_IndexIsSeedsOverlaid ==
    last.op = "handleDataChange" => users = SeedsOverlaid(allData)

\* C10: after any resync every seed username is in the index, with the
\* seed's credentials unless a teacher record of the latest snapshot reuses
\* the username, and then with that record's credentials.
C10_SeedsPresentOrShadowed ==
    last.op = "handleDataChange"
        => \A u \in SeedNames :
              /\ u \in DOMAIN users
              /\ users[u] = IF GuruUsersAt(allData, u) # {}
                            THEN GuruCredentials(allData[LastOf(GuruUsersAt(allData, u))])
                            ELSE defaultUsers[u]

C10_Witness ==
    /\ last.op = "handleDataChange"
    /\ GuruUsersAt(allData, "guru") # {}
    /\ users["guru"].name = "Siti"

----------------------------------------------------------------------------
(* Queries on the miss path.  In QuerySpec the collection and the identity *)
(* stay what they were when the query ran.                                 *)

Queried == last.op = "getFilteredData"

Records(list) == {list[i] : i \in DOMAIN list}

\* updatedAt when present, otherwise createdAt, otherwise date
EffectiveTimestamp(d) ==
    IF "updatedAt" \in DOMAIN d THEN d.updatedAt
    ELSE IF "createdAt" \in DOMAIN d THEN d.createdAt
    ELSE d.date

\* C11: on a cache miss the list returned is in descending order of effective
\* timestamp (updatedAt, else createdAt, else date), and records with equal
\* effective timestamps are in their order of the collection.
C11_SortedByEffectiveTimestamp ==
    (Queried /\ ~last.hit)
        => \A i, j \in DOMAIN last.result :
              i < j =>
                \/ EffectiveTimestamp(last.result[i]) > EffectiveTimestamp(last.result[j])
                \/ /\ EffectiveTimestamp(last.result[i]) = EffectiveTimestamp(last.result[j])
                   /\ last.result[i].__backendId < last.result[j].__backendId

\* C12: on a cache miss a teacher or counselor gets exactly the records of
\* the type that pass the user filters and carry the identity's display name
\* as author; an admin or principal gets every record of the type that passes
\* the user filters.
C12_RoleFilter ==
    (Queried /\ ~last.hit)
        => LET passing == {d \in Records(allData) :
                            /\ d.type = last.args.type
                            /\ MatchesFilters(last.args.filters, d)}
           IN  /\ Len(last.result) = Cardinality(Records(last.result))
               /\ currentUser.role \in {"guru", "bk"}
                    => Records(last.result) = {d \in passing : d.author = currentUser.name}
               /\ currentUser.role \in {"admin", "kepsek"}
                    => Records(last.result) = passing

C12_Witness ==
    /\ Queried /\ ~last.hit
    /\ cache_enabled
    /\ currentUser.role = "guru"
    /\ last.result # << >>
    /\ \E d \in Records(allData) : d.type = "intra" /\ d.author # currentUser.name

\* the record carries value at the field a filter key names
HasValue(d, key, value) ==
    CASE key = "author"      -> d.author = value
      [] key = "meta.kelas"  -> "meta" \in DOMAIN d /\ d.meta.kelas = value
      [] key = "author.name" -> FALSE

\* C13: the list returned is the list the same query returns without user
\* filters, cut down to the records that carry, at every filter key whose
\* value is neither undefined nor empty, exactly that value (a dotted key
\* names a nested field, and a record without the path does not match);
\* filters whose value is undefined or empty cut nothing.
C13_FiltersExactMatch ==
    Queried
        => last.result =
             SelectSeq(FilteredData(allData, currentUser, last.args.type, EmptyObj),
                       LAMBDA d : \A key \in DOMAIN last.args.filters :
                                    last.args.filters[key] \notin {Undefined, ""}
                                        => HasValue(d, key, last.args.filters[key]))

C13_Witness ==
    /\ Queried /\ ~last.hit
    /\ DOMAIN last.args.filters = {"meta.kelas", "author"}
    /\ last.result # << >>
    /\ Len(last.result) < Len(FilteredData(allData, currentUser, "intra", EmptyObj))

----------------------------------------------------------------------------
(* The write path: capacity, lookup, and what a backend failure leaves     *)

\* C14: createData with valid fields is rejected with the capacity error,
\* nothing sent, whenever the collection holds max_data_items records or
\* more at the call, and is not rejected for capacity when it holds fewer.
C14_CapacityGate ==
    ( /\ AtCall("createData")
      /\ validateData(users, last.args.type, last.args.data).valid )
        => /\ Len(allData) >= max_data_items
                => /\ last.outcome = "rejected"
                   /\ last.msg = LimitMessage
                   /\ last.sent = EmptyObj
           /\ Len(allData) < max_data_items => last.msg # LimitMessage

C14_Witness ==
    /\ AtCall("createData")
    /\ last.msg = LimitMessage
    /\ Len(allData) = max_data_items
    /\ LoggedIn(currentUser)

\* the backend answers call i of pending with isOk false
BackendFailure ==
    \E i \in DOMAIN pending :
        createDataResult(i, FALSE) \/ updateDataResult(i, FALSE) \/ deleteDataResult(i, FALSE)

GenericFailureMessage(op) ==
    CASE op = "createData" -> CreateFailedMessage
      [] op = "updateData" -> UpdateFailedMessage
      [] op = "deleteData" -> DeleteFailedMessage

\* C15: when the backend answers isOk false the call rejects with the generic
\* failure error of its operation, the collection and the cache are what they
\* were, and no success notification is shown.
C15_FailureLeavesStateAlone ==
    [][BackendFailure =>
          /\ last'.outcome = "failed"
          /\ last'.msg = GenericFailureMessage(last'.op)
          /\ allData' = allData
          /\ cache' = cache
          /\ \A n \in DOMAIN last'.shown : last'.shown[n].type # "success"
      ]_vars

C15_Witness ==
    /\ last.outcome = "failed"
    /\ last.op = "updateData"
    /\ allData # << >>
    /\ cache # EmptyObj

\* C16: when the backend's failure carries a message, the error the store
\* rejects with carries that message verbatim.
C16_BackendMessageVerbatim ==
    last.outcome = "failed" => last.msg = last.args.result.error

\* C17: updateData and deleteData with an id no record of the collection has
\* reject with the not-found error, nothing sent, under every identity,
\* also one the mutation gate would turn away.
C17_NotFoundFirst ==
    \A op \in {"updateData", "deleteData"} :
        (AtCall(op) /\ Found(allData, last.args.id) = {})
            => /\ last.outcome = "rejected"
               /\ last.msg = NotFoundMessage
               /\ last.sent = EmptyObj

C17_Witness ==
    /\ AtCall("updateData")
    /\ Found(allData, last.args.id) = {}
    /\ currentUser.role = "siswa"
    /\ last.msg = NotFoundMessage

\* C18 as stated: after handleDataChange(records) the collection equals
\* records and the cache is empty.
C18_ReplacedAndCacheEmpty ==
    last.op = "handleDataChange"
        => allData = last.args.data /\ cache = EmptyObj

\* C18 as amended: after handleDataChange(records) the collection equals
\* records, and the cache holds nothing of before the call: at most the
\* entry the page re-render of that call computed from records.
C18_ReplacedAndCacheRebuilt ==
    last.op = "handleDataChange"
        => /\ allData = last.args.data
           /\ \A key \in DOMAIN cache :
                /\ key = cacheKey("intra", EmptyObj)
                /\ LoggedIn(currentUser) /\ currentPage = "intra"
                /\ cache[key].data =
                       FilteredData(last.args.data, currentUser, "intra", EmptyObj)

C18_Witness ==
    /\ last.op = "handleDataChange"
    /\ last.args.data # << >>
    /\ allData = last.args.data
    /\ cacheKey("intra", EmptyObj) \in DOMAIN cache
    /\ cache[cacheKey("intra", EmptyObj)].data = << >>

----------------------------------------------------------------------------
(* The cache at its edges: the expiry instant, and caching switched off    *)

\* C19: with caching enabled, a lookup of a key the cache holds an entry for
\* returns the stored value exactly when the entry's age is at most the ttl,
\* the instant the age equals the ttl included, and reports it absent when
\* the age is greater.
C19_AbsentOnlyPastTtl ==
    [][\A filters \in Filters :
        ( /\ getFilteredData("intra", filters)
          /\ cache_enabled
          /\ cacheKey("intra", filters) \in DOMAIN cache )
        => /\ last'.hit <=> now - cache[cacheKey("intra", filters)].timestamp <= cache_ttl
           /\ last'.hit => last'.result = cache[cacheKey("intra", filters)].data
      ]_vars

\* C20: while caching is configured off, a query finds nothing in the cache,
\* also not an entry stored while caching was on, leaves the cache map as it
\* is, and returns the records computed from the collection for the current
\* identity.
C20_DisabledCacheBypassed ==
    [][\A filters \in Filters :
        (getFilteredData("intra", filters) /\ ~cache_enabled)
        => /\ ~last'.hit
           /\ cache' = cache
           /\ Len(last'.result) = Cardinality(Records(last'.result))
           /\ Records(last'.result) =
                {d \in Records(allData) :
                    /\ d.type = "intra"
                    /\ RoleVisible(currentUser, d)
                    /\ MatchesFilters(filters, d)}
      ]_vars

C20_Witness ==
    /\ ~cache_enabled
    /\ Queried /\ ~last.hit
    /\ cacheKey(last.args.type, last.args.filters) \in DOMAIN cache
    /\ Fresh(cache[cacheKey(last.args.type, last.args.filters)], now)
    /\ last.result # cache[cacheKey(last.args.type, last.args.filters)].data

----------------------------------------------------------------------------
(* What a call reports: refreshes, notifications, errors                   *)

Mutations == {"createData", "updateData", "deleteData"}

\* C21: every handleDataChange and every createData, updateData and
\* deleteData that succeeded has fired the page refresh.
C21_RefreshAfterSuccess ==
    (last.op \in Mutations \cup {"handleDataChange"} /\ last.outcome = "returned")
        => last.rendered

\* C22: a createData, updateData or deleteData call that fails, for whatever
\* reason, ends rejected with an error message, having shown exactly one
\* notification, an error notification with that message; a call ends in
\* no other way than awaiting, returned or rejected.
C22_FailuresRejectWithOneNotice ==
    last.op \in Mutations
        => /\ last.outcome \in {"awaiting", "returned", "rejected", "failed", "threw"}
           /\ last.outcome \in {"rejected", "failed", "threw"}
                => /\ last.msg # ""
                   /\ last.shown = <<[message |-> "Error: " \o last.msg, type |-> "error"]>>
           /\ last.outcome = "returned"
                => last.shown = <<[message |-> SuccessMessage(last.op), type |-> "success"]>>
           /\ last.outcome = "awaiting" => last.shown = << >>

C22_Witness ==
    /\ last.op = "deleteData"
    /\ last.outcome = "threw"
    /\ last.msg = SdkError
    /\ Len(last.shown) = 1

\* C23: handleDataError reports the error and leaves the collection, the
\* cache and the credential index as they were, so that every query returns
\* after it what it returned before it.
C23_ErrorLeavesStoreAlone ==
    [][handleDataError(SdkError) =>
          /\ allData' = allData /\ cache' = cache /\ users' = users
          /\ Len(last'.shown) = 1 /\ last'.shown[1].type = "error"
          /\ \A filters \in Filters :
                QueryResult(cache', cache_enabled', now', allData', currentUser',
                            "intra", filters)
                  = QueryResult(cache, cache_enabled, now, allData, currentUser,
                                "intra", filters)
      ]_vars

C23_Witness ==
    /\ last.op = "handleDataError"
    /\ allData # << >>
    /\ cache # EmptyObj

----------------------------------------------------------------------------
(* The validation rules, read off the verdicts of validateData *)

Validated == last.op = "validateData" /\ last.args.data # Null

\* the first field of the list that the candidate does not carry
RECURSIVE FirstAbsent(_, _)
FirstAbsent(data, fields) ==
    IF fields = << >> THEN Undefined
    ELSE IF Head(fields) \notin DOMAIN data THEN Head(fields)
    ELSE FirstAbsent(data, Tail(fields))

\* C24: for every record type, a candidate that satisfies the documented
\* rules of the type (a grade score anywhere in [0,100], both bounds
\* included) is returned valid = true.
C24_ValidCandidatesPass ==
    (Validated /\ last.args.data \in ValidCandidates(last.args.type))
        => (last.outcome = "returned" /\ last.result.valid)

\* C25: for every known type, a candidate lacking a required field is
\* returned valid = false with the message naming the first missing
\* required field in the order of the type, whatever its other fields hold.
C25_FirstMissingFieldNamed ==
    (/\ Validated
     /\ last.args.type \in ValidatedTypes
     /\ FirstAbsent(last.args.data, required(last.args.type)) # Undefined)
        => /\ last.outcome = "returned"
           /\ last.result =
                Invalid(RequiredMessage(FirstAbsent(last.args.data,
                                                    required(last.args.type))))

InRange(number) == ~number.nan /\ number.value >= 0 /\ number.value <= 100

\* C26: a grade candidate carrying every required field fails with the
\* score-range message exactly when its score does not parse to a number in
\* [0,100], and succeeds when it does.
C26_ScoreRangeExactly ==
    (/\ Validated
     /\ last.args.type = "nilai"
     /\ FirstAbsent(last.args.data, required("nilai")) = Undefined)
        => /\ (last.result = Invalid("Nilai harus antara 0 dan 100"))
                <=> ~InRange(parseFloat(last.args.data.nilai))
           /\ last.result.valid <=> InRange(parseFloat(last.args.data.nilai))

\* what each password is made of: length, lowercase, uppercase, digit
PasswordFacts(password) ==
    CASE password = "Rahasia1" -> [length |-> 8, lower |-> TRUE,  upper |-> TRUE,  digit |-> TRUE]
      [] password = "rahasia1" -> [length |-> 8, lower |-> TRUE,  upper |-> FALSE, digit |-> TRUE]
      [] password = "RAHASIA1" -> [length |-> 8, lower |-> FALSE, upper |-> TRUE,  digit |-> TRUE]
      [] password = "Rahasiaa" -> [length |-> 8, lower |-> TRUE,  upper |-> TRUE,  digit |-> FALSE]
      [] password = "rahasiaa" -> [length |-> 8, lower |-> TRUE,  upper |-> FALSE, digit |-> FALSE]
      [] password = "Rhs1"     -> [length |-> 4, lower |-> TRUE,  upper |-> TRUE,  digit |-> TRUE]
      [] password = "rhs"      -> [length |-> 3, lower |-> TRUE,  upper |-> FALSE, digit |-> FALSE]
      [] password = "12345"    -> [length |-> 5, lower |-> FALSE, upper |-> FALSE, digit |-> TRUE]
      [] password = "123456"   -> [length |-> 6, lower |-> FALSE, upper |-> FALSE, digit |-> TRUE]

\* the verdict the documented order of checks gives
FirstFailingCheck(password) ==
    LET facts == PasswordFacts(password)
    IN  IF facts.length < password_min_length
            THEN [valid |-> FALSE, message |-> "Password minimal 6 karakter"]
        ELSE IF ~facts.lower
            THEN [valid |-> FALSE, message |-> "Password harus mengandung huruf kecil"]
        ELSE IF ~facts.upper
            THEN [valid |-> FALSE, message |-> "Password harus mengandung huruf besar"]
        ELSE IF ~facts.digit
            THEN [valid |-> FALSE, message |-> "Password harus mengandung angka"]
        ELSE [valid |-> TRUE, message |-> "Password kuat"]

\* a teacher candidate that passed the required fields and the NIP format
TeacherPastNip ==
    /\ Validated
    /\ last.args.type = "guru"
    /\ FirstAbsent(last.args.data, required("guru")) = Undefined
    /\ IsNip(last.args.data.nip)

\* C27: validatePassword checks the minimum length, a lowercase letter, an
\* uppercase letter and a digit in that order and returns the message of the
\* first check that fails, valid only when all four hold; teacher
\* validation returns the same verdict when the password is the first
\* failing domain check after the NIP format.
C27_PasswordFirstFailure ==
    /\ last.op = "validatePassword"
            => last.result = FirstFailingCheck(last.args.password)
    /\ (TeacherPastNip /\ ~FirstFailingCheck(last.args.data.password).valid)
            => last.result = FirstFailingCheck(last.args.data.password)

C27_Witness ==
    /\ TeacherPastNip
    /\ last.args.data.password = "123456"
    /\ last.result.message = "Password harus mengandung huruf kecil"

\* the username is in the index under the credentials of another teacher
HeldByAnother(index, data) ==
    /\ data.username \in DOMAIN index
    /\ \/ Get(index[data.username], "name") # data.title
       \/ Get(index[data.username], "nip") # data.nip

\* C28: teacher validation fails on the username check exactly when the
\* username is held in the credential index by a different identity; a
\* candidate whose username is held only by that same teacher passes.
C28_UsernameOfAnotherOnly ==
    (TeacherPastNip /\ FirstFailingCheck(last.args.data.password).valid)
        => ((last.result = Invalid("Username sudah digunakan"))
                <=> HeldByAnother(users, last.args.data))

\* C29: validateData never throws, whatever the type and the candidate, an
\* absent or null candidate included: every call returns a verdict
\* {valid, message}.
C29_NeverThrows ==
    last.op = "validateData"
        => /\ last.outcome = "returned"
           /\ DOMAIN last.result = {"valid", "message"}
           /\ last.result.valid \in BOOLEAN

----------------------------------------------------------------------------
(* The cache under interleaving *)

\* C30: with the identity and the configuration fixed, under every
\* interleaving of getFilteredData, handleDataChange, sweeps and completions
\* of in-flight mutations, every cache entry a lookup would still return
\* equals the fresh recomputation of its (type, filters) query over the
\* current collection.
C30_LiveEntriesAreCurrent ==
    \A type \in Types, filters \in Filters :
        getCachedData(cache, cache_enabled, now, cacheKey(type, filters)).hit
            => getCachedData(cache, cache_enabled, now, cacheKey(type, filters)).data
                    = FilteredData(allData, currentUser, type, filters)

C30_Witness ==
    /\ last.op \in {"createData", "updateData", "deleteData"}
    /\ last.outcome = "failed"
    /\ allData # << >>
    /\ \E filters \in Filters :
            /\ getCachedData(cache, cache_enabled, now, cacheKey("intra", filters)).hit
            /\ getCachedData(cache, cache_enabled, now, cacheKey("intra", filters)).data
                    # << >>

----------------------------------------------------------------------------
(* Calls in flight together *)

\* the updates the backend holds unanswered
UpdatesInFlight == {i \in DOMAIN dataSdk.calls : dataSdk.calls[i].op = "updateData"}

\* C31: updateData calls on one record started before any backend response
\* or resync all pass lookup and gate against the same snapshot, each sends
\* the backend its own partial fields merged onto that same pre-update
\* record, and none is rejected locally for the other being in flight.
C31_ConcurrentUpdatesShareSnapshot ==
    /\ \A i \in UpdatesInFlight :
            LET call == dataSdk.calls[i]
            IN  /\ Found(allData, call.args.id) # {}
                /\ \E t \in 0..now :
                        call.sent = Spread(Spread(find(allData, call.args.id),
                                                  call.args.data),
                                           [updatedAt |-> t])
    /\ (last.op = "updateData" /\ last.outcome = "rejected")
            => \/ Found(allData, last.args.id) = {}
               \/ ~canUpdateData(currentUser, find(allData, last.args.id))

C31_Witness ==
    /\ Len(dataSdk.calls) = 2
    /\ \A i \in DOMAIN dataSdk.calls :
            dataSdk.calls[i].op = "updateData" /\ dataSdk.calls[i].args.id = 1
    /\ dataSdk.calls[1].args.data # dataSdk.calls[2].args.data
    /\ last.outcome = "awaiting"

----------------------------------------------------------------------------
(* The background sweep *)

Age(key) == now - cache[key].timestamp

Expired(key) == key \in DOMAIN cache /\ Age(key) > cache_ttl

----------------------------------------------------------------------------
(* The records handed to the backend *)

\* a create or update at its await: last.sent is what the backend receives
SentToBackend == last.op \in {"createData", "updateData"} /\ last.outcome = "awaiting"

\* C33: every record sent to the backend by createData or updateData meets
\* the validation rules of its type: a grade sent by updateData has its
\* required fields and a score in [0,100], whatever the partial fields.
C33_SentRecordsAreValid ==
    SentToBackend => validateData(users, last.sent.type, last.sent).valid

\* C34: the record createData(type, fields) sends carries the type tag of
\* the type argument whose rules validated the fields, also when the fields
\* hold a type entry of their own.
C34_SentTypeIsValidatedType ==
    (AtCall("createData") /\ last.outcome = "awaiting")
        => last.sent.type = last.args.type

\* C36: the record createData sends has the display name of the current
\* identity as author and the instant of the call as createdAt, whatever
\* author or createdAt the fields carry; so its creator passes the mutation
\* gate on it.
C36_StampedWithCreator ==
    (AtCall("createData") /\ last.outcome = "awaiting")
        => /\ last.sent.author = currentUser.name
           /\ last.sent.createdAt = now
           /\ canUpdateData(currentUser, last.sent)
           /\ canDeleteData(currentUser, last.sent)

C36_Witness ==
    /\ AtCall("createData")
    /\ last.outcome = "awaiting"
    /\ currentUser.role = "guru"
    /\ "author" \in DOMAIN last.args.data
    /\ last.args.data.author # currentUser.name
    /\ last.sent.author = currentUser.name

C37_CollectionWithinMaximum == Len(allData) <= max_data_items

\* C38: the record an updateData call of a non-admin identity sends has the
\* author of the existing record, so no update moves a record out of or
\* into another identity's write eligibility and read visibility.
C38_UpdateKeepsAuthor ==
    ( /\ AtCall("updateData")
      /\ last.outcome = "awaiting"
      /\ currentUser.role # "admin" )
        => last.sent.author = find(allData, last.args.id).author

----------------------------------------------------------------------------
(* The store while nobody is logged in *)

\* C39: while no identity is logged in no create, update or delete reaches
\* the backend: updateData and deleteData on an existing record reject with
\* the permission error, createData rejects before the backend call; and
\* getFilteredData returns the records of the type that pass the user
\* filters whatever their approved flag and author.
C39_LoggedOutStore ==
    ~LoggedIn(currentUser)
        => /\ \A op \in {"updateData", "deleteData"} :
                (AtCall(op) /\ Found(allData, last.args.id) # {})
                    => /\ last.outcome = "rejected"
                       /\ last.sent = EmptyObj
                       /\ last.msg = IF op = "updateData" THEN UpdateForbiddenMessage
                                     ELSE DeleteForbiddenMessage
           /\ AtCall("createData")
                => last.outcome = "rejected" /\ last.sent = EmptyObj
           /\ Queried
                => Records(last.result) =
                        {d \in Records(allData) :
                            /\ d.type = last.args.type
                            /\ MatchesFilters(last.args.filters, d)}

----------------------------------------------------------------------------
(* The dashboard figures and the viewer *)

\* C40: getStatistics returns, for each listed type, the number of all
\* records of that type in the collection, the same under every identity:
\* the role filter takes nothing off, so a student's figures count the
\* unapproved records too.
C40_StatisticsCountEveryRecord ==
    last.op = "getStatistics"
        => /\ DOMAIN last.result = StatisticsTypes
           /\ \A t \in StatisticsTypes :
                last.result[t] = Cardinality({i \in DOMAIN allData : allData[i].type = t})

C40_Witness ==
    /\ last.op = "getStatistics"
    /\ currentUser.role = "siswa"
    /\ last.result["intra"] = 2
    /\ Unapproved(allData) # {}

====
